---- MODULE Spec2Model ----
(***************************************************************************)
(* ZincX: the event manager (src/src/event) and the graphics view          *)
(* (src/src/graphics) as a state machine.                                  *)
(*                                                                         *)
(* dispatchEvents is modelled at the granularity of its source lines: the  *)
(* while test and pop (16-18), one callback invocation (19-20), the        *)
(* built-in state rule that follows it inside the same loop body (22-28).  *)
(* Callbacks are std::function values supplied by the caller; the model    *)
(* draws them from three behaviours (returns, throws, re-enters            *)
(* queueEvent).                                                            *)
(***************************************************************************)
EXTENDS Integers, Sequences, FiniteSets, TLC

(* ------------------------------ bounds -------------------------------- *)
MaxQueue == 2
MaxListeners == 2
MaxPass == 3
MaxItems == 3
MaxJoint == 1

(* --------------------------- closed enums ----------------------------- *)
WidgetState == {"Normal", "Hovered", "Pressed", "Disabled"}
EventType == {"MouseClick", "KeyPress", "TouchStart"}
RenderMode == {"Text", "Graphics16", "Vulkan"}

(* The items the callers hold; the view and the manager only keep          *)
(* references to them.                                                     *)
Items == {"A", "B"}
ItemPos == [i \in Items |-> IF i = "A" THEN 1 ELSE 2]
NoEvent == [variant |-> "none"]

(* ------------------------------ events -------------------------------- *)
ZEvent(t) ==
    [variant |-> "base", type |-> t, timestamp |-> 0]

ZMouseEvent(t, pos, btn) ==
    [variant |-> "mouse", type |-> t, timestamp |-> 0,
     position |-> pos, button |-> btn, modifiers |-> "None"]

(* The events the producers queue: both variants, every type tag, a click   *)
(* aimed at each item, and base events that carry the MouseClick tag.      *)
BaseEvents == {ZEvent(t) : t \in {"MouseClick", "KeyPress"}}
MouseEvents == {ZMouseEvent("MouseClick", ItemPos[i], 1) : i \in Items}
                 \cup {ZMouseEvent("TouchStart", ItemPos["A"], 1)}
Events == BaseEvents \cup MouseEvents

(* The item an event was aimed at by its producer: the item lying at the   *)
(* event's position.  dispatchEvents never computes this.                  *)
TargetOf(e) == CHOOSE i \in Items : ItemPos[i] = e.position

(* dynamic_cast<ZMouseEvent*>(event.get()) != nullptr                      *)
IsMouseEventByTag(e) == e.type = "MouseClick"
IsMouseEvent(e) == e.variant = "mouse"

(* --------------------------- callbacks -------------------------------- *)
Callbacks == {"returns", "throws", "enqueues"}
EnqueuedByCallback == ZEvent("KeyPress")

VARIABLES
    eventQueue_,     \* ZEventManager::eventQueue_
    listeners_,      \* ZEventManager::listeners_
    itemState,       \* ZGraphicsItem state of every item
    pc,              \* position of the caller inside dispatchEvents
    event,           \* the local `event` of dispatchEvents
    li,              \* position of the range-for over listeners_
    dispatchResult,  \* how the last dispatchEvents call ended
    registered,      \* the registerListener calls, in call order
    passEvents,      \* the queueEvent calls the pass has to serve, in order
    callLog,         \* callback invocations of the latest pass
    popped,          \* how many events of passEvents the pass has popped
    items_,          \* ZGraphicsView::items_
    renderMode_,     \* ZGraphicsView::renderMode_
    initCalls,       \* modes the backend's initialize was called with
    drawCalls,       \* items whose draw was called by the last render
    renderResult,    \* how the last render call ended
    failedAt,        \* index of the draw call that failed (0: none)
    viewCalls,       \* the last two calls on the view, with items_ before
    backendLog       \* the last two calls on a DOSGraphicsBackend, with output

evVars == <<eventQueue_, listeners_, pc, event, li, dispatchResult,
            registered, passEvents, callLog, popped>>
viewVars == <<items_, renderMode_, initCalls, drawCalls, renderResult,
              failedAt, viewCalls>>
vars == <<eventQueue_, listeners_, itemState, pc, event, li, dispatchResult,
          registered, passEvents, callLog, popped, items_, renderMode_,
          initCalls, drawCalls, renderResult, failedAt, viewCalls,
          backendLog>>

(* ZGraphicsItem::setState: unconditional                                  *)
setState(st, item, s) == [st EXCEPT ![item] = s]

Init ==
    /\ eventQueue_ = <<>>
    /\ listeners_ = <<>>
    /\ itemState = [i \in Items |-> "Normal"]
    /\ pc = "idle"
    /\ event = NoEvent
    /\ li = 0
    /\ dispatchResult = "none"
    /\ registered = <<>>
    /\ passEvents = <<>>
    /\ callLog = <<>>
    /\ popped = 0
    /\ items_ = <<>>
    /\ renderMode_ = "unset"
    /\ initCalls = <<>>
    /\ drawCalls = <<>>
    /\ renderResult = "none"
    /\ failedAt = 0
    /\ viewCalls = <<>>
    /\ backendLog = <<>>

(* ======================= ZEventManager ================================ *)

(* dispatchResult and callLog record the latest dispatchEvents call; the   *)
(* record is dropped when the caller goes on to the next call.             *)
(* passEvents are the queueEvent calls still to be served, in call order:  *)
(* after a pass has ended, what that pass left in the queue.               *)
Pending ==
    IF dispatchResult \in {"returned", "failed"} THEN eventQueue_
    ELSE passEvents

ClearRecord ==
    /\ dispatchResult' = "none"
    /\ callLog' = <<>>
    /\ popped' = 0

(* eventQueue_.push(std::move(event))                                      *)
PushLifo(q, e) == <<e>> \o q
Push(q, e) == Append(q, e)

(* eventQueue_.empty()                                                     *)
emptyOffByOne(q) == Len(q) <= 1
empty(q) == q = <<>>

(* eventQueue_.front()                                                     *)
Back(q) == q[Len(q)]
Front(q) == Head(q)

(* eventQueue_.pop()                                                       *)
PopKeepsFront(q) == q
Pop(q) == Tail(q)

(* listeners_.emplace_back(item, std::move(callback))                      *)
EmplaceFront(l, item, callback) ==
    <<[item |-> item, callback |-> callback]>> \o l
EmplaceBack(l, item, callback) ==
    Append(l, [item |-> item, callback |-> callback])

queueEvent(e) ==
    /\ pc = "idle"
    /\ Len(eventQueue_) < MaxQueue
    /\ eventQueue_' = Push(eventQueue_, e)
    /\ passEvents' = Append(Pending, e)
    /\ ClearRecord
    /\ UNCHANGED <<listeners_, registered, itemState, pc, event, li>>
    /\ UNCHANGED viewVars
    /\ UNCHANGED backendLog

registerListenerUnique(item, callback) ==
    /\ pc = "idle"
    /\ Len(registered) < MaxListeners
    /\ listeners_' =
          IF \E k \in 1..Len(listeners_) : listeners_[k].item = item
          THEN listeners_
          ELSE EmplaceBack(listeners_, item, callback)
    /\ registered' = Append(registered, [item |-> item, callback |-> callback])
    /\ passEvents' = Pending
    /\ ClearRecord
    /\ UNCHANGED <<eventQueue_, itemState, pc, event, li>>
    /\ UNCHANGED viewVars
    /\ UNCHANGED backendLog
registerListenerResets(item, callback) ==
    /\ pc = "idle"
    /\ Len(listeners_) < MaxListeners
    /\ listeners_' = EmplaceBack(listeners_, item, callback)
    /\ registered' = Append(registered, [item |-> item, callback |-> callback])
    /\ passEvents' = Pending
    /\ ClearRecord
    /\ itemState' = setState(itemState, item, "Normal")
    /\ UNCHANGED <<eventQueue_, pc, event, li>>
    /\ UNCHANGED viewVars
    /\ UNCHANGED backendLog
registerListener(item, callback) ==
    /\ pc = "idle"
    /\ Len(listeners_) < MaxListeners
    /\ listeners_' = EmplaceBack(listeners_, item, callback)
    /\ registered' = Append(registered, [item |-> item, callback |-> callback])
    /\ passEvents' = Pending
    /\ ClearRecord
    /\ UNCHANGED <<eventQueue_, itemState, pc, event, li>>
    /\ UNCHANGED viewVars
    /\ UNCHANGED backendLog

(* The caller enters dispatchEvents.                                       *)
dispatchEvents ==
    /\ pc = "idle"
    /\ pc' = "while"
    /\ dispatchResult' = "running"
    /\ passEvents' = Pending
    /\ callLog' = <<>>
    /\ popped' = 0
    /\ UNCHANGED <<eventQueue_, listeners_, registered, itemState, event, li>>
    /\ UNCHANGED viewVars
    /\ UNCHANGED backendLog

(* while (!eventQueue_.empty()) { event = move(front()); pop(); ...        *)
WhileStepPressesTarget ==
    /\ pc = "while"
    /\ IF empty(eventQueue_)
       THEN /\ pc' = "idle"
            /\ dispatchResult' = "returned"
            /\ UNCHANGED <<eventQueue_, event, li, popped, itemState>>
       ELSE /\ event' = Front(eventQueue_)
            /\ eventQueue_' = Pop(eventQueue_)
            /\ popped' = popped + 1
            /\ li' = 1
            /\ pc' = "for"
            /\ itemState' =
                  IF IsMouseEvent(Front(eventQueue_))
                     /\ Front(eventQueue_).type = "MouseClick"
                  THEN setState(itemState, TargetOf(Front(eventQueue_)),
                                "Pressed")
                  ELSE itemState
            /\ UNCHANGED dispatchResult
    /\ UNCHANGED <<listeners_, registered, passEvents, callLog>>
    /\ UNCHANGED viewVars
    /\ UNCHANGED backendLog
WhileStep ==
    /\ pc = "while"
    /\ IF empty(eventQueue_)
       THEN /\ pc' = "idle"
            /\ dispatchResult' = "returned"
            /\ UNCHANGED <<eventQueue_, event, li, popped>>
       ELSE /\ event' = Front(eventQueue_)
            /\ eventQueue_' = Pop(eventQueue_)
            /\ popped' = popped + 1
            /\ li' = 1
            /\ pc' = "for"
            /\ UNCHANGED dispatchResult
    /\ UNCHANGED <<listeners_, registered, itemState, passEvents, callLog>>
    /\ UNCHANGED viewVars
    /\ UNCHANGED backendLog

(* for (auto& [item, callback] : listeners_) { callback(event); ...        *)
(* The end of the range-for ends the loop body: `event` is destroyed.      *)
(* A callback that throws unwinds dispatchEvents: `event` is destroyed,    *)
(* the queue keeps what it holds.                                          *)
CallbackStep ==
    /\ pc = "for"
    /\ IF li > Len(listeners_)
       THEN /\ event' = NoEvent
            /\ li' = 0
            /\ pc' = "while"
            /\ UNCHANGED <<eventQueue_, dispatchResult, passEvents, callLog>>
       ELSE LET l == listeners_[li] IN
            /\ callLog' = Append(callLog,
                   [event |-> event, listener |-> li,
                    item |-> l.item, callback |-> l.callback])
            /\ CASE l.callback = "returns" ->
                      /\ pc' = "rule"
                      /\ UNCHANGED <<eventQueue_, event, li, dispatchResult,
                                     passEvents>>
                 [] l.callback = "throws" ->
                      /\ pc' = "idle"
                      /\ event' = NoEvent
                      /\ li' = 0
                      /\ dispatchResult' = "failed"
                      /\ UNCHANGED <<eventQueue_, passEvents>>
                 [] l.callback = "enqueues" ->
                      /\ Len(passEvents) < MaxPass
                      /\ eventQueue_' = Push(eventQueue_, EnqueuedByCallback)
                      /\ passEvents' = Append(passEvents, EnqueuedByCallback)
                      /\ pc' = "rule"
                      /\ UNCHANGED <<event, li, dispatchResult>>
    /\ UNCHANGED <<listeners_, registered, itemState, popped>>
    /\ UNCHANGED viewVars
    /\ UNCHANGED backendLog

(* The state the built-in rule leaves, for the listener's item.            *)
StateRuleAfterAll(st, e, item) ==
    IF li = Len(listeners_) /\ IsMouseEvent(e) /\ e.type = "MouseClick"
    THEN setState(st, TargetOf(e), "Pressed")
    ELSE st
StateRuleAllItems(st, e, item) ==
    IF IsMouseEvent(e) /\ e.type = "MouseClick"
    THEN [i \in Items |-> "Pressed"]
    ELSE st
StateRuleTouchReleases(st, e, item) ==
    IF IsMouseEvent(e)
    THEN IF e.type = "MouseClick"
         THEN setState(st, item, "Pressed")
         ELSE IF e.type = "TouchStart"
              THEN setState(st, item, "Normal")
              ELSE st
    ELSE st
StateRuleTargetOnly(st, e, item) ==
    IF IsMouseEvent(e) /\ e.type = "MouseClick" /\ item = TargetOf(e)
    THEN setState(st, item, "Pressed")
    ELSE st
StateRule(st, e, item) ==
    IF IsMouseEvent(e)
    THEN IF e.type = "MouseClick"
         THEN setState(st, item, "Pressed")
         ELSE IF e.type = "MouseRelease"
              THEN setState(st, item, "Normal")
              ELSE st
    ELSE st

RuleStep ==
    /\ pc = "rule"
    /\ itemState' = StateRule(itemState, event, listeners_[li].item)
    /\ li' = li + 1
    /\ pc' = "for"
    /\ UNCHANGED <<eventQueue_, listeners_, registered, event, dispatchResult,
                   passEvents, callLog, popped>>
    /\ UNCHANGED viewVars
    /\ UNCHANGED backendLog

(* An explicit setState call by the owner of the item.                     *)
SetStateCall(item, s) ==
    /\ pc = "idle"
    /\ itemState[item] # s
    /\ itemState' = setState(itemState, item, s)
    /\ passEvents' = Pending
    /\ ClearRecord
    /\ UNCHANGED <<eventQueue_, listeners_, registered, pc, event, li>>
    /\ UNCHANGED viewVars
    /\ UNCHANGED backendLog

NextEvents ==
    \/ \E e \in Events : queueEvent(e)
    \/ \E i \in Items, cb \in Callbacks : registerListener(i, cb)
    \/ dispatchEvents
    \/ WhileStep
    \/ CallbackStep
    \/ RuleStep
    \/ \E i \in Items, s \in WidgetState : SetStateCall(i, s)

SpecEvents == Init /\ [][NextEvents]_vars

(* ------------------- dispatchEvents as a running loop ----------------- *)
(* The same loop without the record of the pass (callLog, passEvents and   *)
(* popped are left alone), so that a pass that goes round and round comes  *)
(* back to a state it was in.                                              *)
WhileStepQuiet ==
    /\ pc = "while"
    /\ IF empty(eventQueue_)
       THEN /\ pc' = "idle"
            /\ dispatchResult' = "returned"
            /\ UNCHANGED <<eventQueue_, event, li>>
       ELSE /\ event' = Front(eventQueue_)
            /\ eventQueue_' = Pop(eventQueue_)
            /\ li' = 1
            /\ pc' = "for"
            /\ UNCHANGED dispatchResult
    /\ UNCHANGED <<listeners_, registered, itemState, passEvents, callLog,
                   popped>>
    /\ UNCHANGED viewVars
    /\ UNCHANGED backendLog

CallbackStepQuiet ==
    /\ pc = "for"
    /\ IF li > Len(listeners_)
       THEN /\ event' = NoEvent
            /\ li' = 0
            /\ pc' = "while"
            /\ UNCHANGED <<eventQueue_, dispatchResult>>
       ELSE LET l == listeners_[li] IN
            CASE l.callback = "returns" ->
                      /\ pc' = "rule"
                      /\ UNCHANGED <<eventQueue_, event, li, dispatchResult>>
              [] l.callback = "throws" ->
                      /\ pc' = "idle"
                      /\ event' = NoEvent
                      /\ li' = 0
                      /\ dispatchResult' = "failed"
                      /\ UNCHANGED eventQueue_
              [] l.callback = "enqueues" ->
                      /\ Len(eventQueue_) < MaxQueue
                      /\ eventQueue_' = Push(eventQueue_, EnqueuedByCallback)
                      /\ pc' = "rule"
                      /\ UNCHANGED <<event, li, dispatchResult>>
    /\ UNCHANGED <<listeners_, registered, itemState, popped, passEvents,
                   callLog>>
    /\ UNCHANGED viewVars
    /\ UNCHANGED backendLog

NoEnqueuer ==
    \A k \in 1..Len(listeners_) : listeners_[k].callback # "enqueues"

(* At most one registered callback re-enters queueEvent: each dispatched   *)
(* event then adds one event, and the queue keeps its length.              *)
registerListenerLive(item, callback) ==
    /\ callback = "enqueues" => NoEnqueuer
    /\ registerListener(item, callback)

NextLive ==
    \/ \E e \in Events : queueEvent(e)
    \/ \E i \in Items, cb \in Callbacks : registerListenerLive(i, cb)
    \/ dispatchEvents
    \/ WhileStepQuiet
    \/ CallbackStepQuiet
    \/ RuleStep

(* dispatchEvents is an ordinary synchronous call: once entered, the       *)
(* thread keeps executing its next statement.                              *)
DispatchRuns == WhileStepQuiet \/ CallbackStepQuiet \/ RuleStep

SpecLive == Init /\ [][NextLive]_vars /\ WF_vars(DispatchRuns)

(* ======================= ZGraphicsView ================================ *)

(* drawCalls, renderResult and failedAt record the latest render call;     *)
(* the record is dropped when the caller goes on to the next call.         *)
(* viewCalls keeps the last two calls with the items_ each one found.      *)
ClearRender ==
    /\ drawCalls' = <<>>
    /\ renderResult' = "none"
    /\ failedAt' = 0

Called(op, item) ==
    LET c == [op |-> op, item |-> item, before |-> items_] IN
    viewCalls' = IF viewCalls = <<>> THEN <<c>>
                 ELSE <<viewCalls[Len(viewCalls)], c>>

(* backend_->initialize(renderMode_), on the record of initialize calls     *)
InitializeSkipped(calls, mode) == calls
Initialize(calls, mode) == Append(calls, mode)

(* ZGraphicsView::ZGraphicsView(backend, mode)                             *)
Construct(mode) ==
    /\ renderMode_ = "unset"
    /\ renderMode_' = mode
    /\ initCalls' = Initialize(initCalls, mode)
    /\ UNCHANGED <<items_, drawCalls, renderResult, failedAt, viewCalls>>
    /\ UNCHANGED itemState
    /\ UNCHANGED evVars
    /\ UNCHANGED backendLog

addItem(item) ==
    /\ renderMode_ # "unset"
    /\ Len(items_) < MaxItems
    /\ items_' = Append(items_, item)
    /\ ClearRender
    /\ Called("addItem", item)
    /\ UNCHANGED <<renderMode_, initCalls>>
    /\ UNCHANGED itemState
    /\ UNCHANGED evVars
    /\ UNCHANGED backendLog

(* std::remove(first, last, value): the range of the elements that differ  *)
(* from value, moved to the front in their order.                          *)
RECURSIVE KeptAfterFirst(_, _)
KeptAfterFirst(s, x) ==
    IF s = <<>> THEN <<>>
    ELSE IF Head(s) = x THEN Tail(s)
         ELSE <<Head(s)>> \o KeptAfterFirst(Tail(s), x)
RECURSIVE Kept(_, _)
Kept(s, x) ==
    IF s = <<>> THEN <<>>
    ELSE IF Head(s) = x
         THEN Kept(Tail(s), x)
         ELSE <<Head(s)>> \o Kept(Tail(s), x)

(* items_.erase(std::remove(begin, end, item), end)                        *)
RemoveNoErase(s, x) ==
    LET r == Kept(s, x) IN r \o SubSeq(s, Len(r) + 1, Len(s))
EraseRemove(s, x) == Kept(s, x)

removeItemUnregisters(item) ==
    /\ renderMode_ # "unset"
    /\ items_' = EraseRemove(items_, item)
    /\ ClearRender
    /\ Called("removeItem", item)
    /\ listeners_' = SelectSeq(listeners_, LAMBDA l : l.item # item)
    /\ UNCHANGED <<renderMode_, initCalls>>
    /\ UNCHANGED itemState
    /\ UNCHANGED <<eventQueue_, pc, event, li, dispatchResult, registered,
                   passEvents, callLog, popped>>
    /\ UNCHANGED backendLog
removeItem(item) ==
    /\ renderMode_ # "unset"
    /\ items_' = EraseRemove(items_, item)
    /\ ClearRender
    /\ Called("removeItem", item)
    /\ UNCHANGED <<renderMode_, initCalls>>
    /\ UNCHANGED itemState
    /\ UNCHANGED evVars
    /\ UNCHANGED backendLog

(* item->draw(backend): the draw of an item in `bad` throws.               *)
DrawThrows(item, bad) == item \in bad

(* for (auto* item : items_) item->draw(backend_.get());                   *)
(* from index k on, with the draw calls made so far.                       *)
RECURSIVE RenderPassDedup(_, _, _, _)
RenderPassDedup(items, bad, k, calls) ==
    IF k > Len(items)
    THEN [calls |-> calls, result |-> "returned", failedAt |-> 0]
    ELSE IF \E j \in 1..Len(calls) : calls[j] = items[k]
         THEN RenderPassDedup(items, bad, k + 1, calls)
         ELSE IF DrawThrows(items[k], bad)
              THEN [calls |-> Append(calls, items[k]), result |-> "failed",
                    failedAt |-> k]
              ELSE RenderPassDedup(items, bad, k + 1, Append(calls, items[k]))
RECURSIVE RenderPassIsolated(_, _, _, _)
RenderPassIsolated(items, bad, k, calls) ==
    IF k > Len(items)
    THEN LET f == {j \in 1..Len(items) : DrawThrows(items[j], bad)} IN
         [calls |-> calls,
          result |-> IF f = {} THEN "returned" ELSE "failed",
          failedAt |-> IF f = {} THEN 0
                       ELSE CHOOSE j \in f : \A h \in f : j <= h]
    ELSE RenderPassIsolated(items, bad, k + 1, Append(calls, items[k]))
RECURSIVE RenderPass(_, _, _, _)
RenderPass(items, bad, k, calls) ==
    IF k > Len(items)
    THEN [calls |-> calls, result |-> "returned", failedAt |-> 0]
    ELSE IF DrawThrows(items[k], bad)
         THEN [calls |-> Append(calls, items[k]), result |-> "failed",
               failedAt |-> k]
         ELSE RenderPass(items, bad, k + 1, Append(calls, items[k]))

render(bad) ==
    /\ renderMode_ # "unset"
    /\ LET r == RenderPass(items_, bad, 1, <<>>) IN
         /\ drawCalls' = r.calls
         /\ renderResult' = r.result
         /\ failedAt' = r.failedAt
    /\ Called("render", bad)
    /\ UNCHANGED <<items_, renderMode_, initCalls>>
    /\ UNCHANGED itemState
    /\ UNCHANGED evVars
    /\ UNCHANGED backendLog

NextView ==
    \/ \E m \in RenderMode : Construct(m)
    \/ \E i \in Items : addItem(i)
    \/ \E i \in Items : removeItem(i)
    \/ \E bad \in SUBSET Items : render(bad)

SpecView == Init /\ [][NextView]_vars

(* ===================== DOSGraphicsBackend ============================= *)
(* What an operation writes to std::cout, as the sequence of its words.    *)
TextAlignment == {"Left", "Center", "Right", "Justified"}
Texts == {"OK", "Left"}
Rects == {[x |-> 0, y |-> 0, width |-> 8, height |-> 1]}
Colors == {[r |-> 255, g |-> 255, b |-> 255]}

(* switch (mode) in initialize; no default: nothing more is written.       *)
ModeWordsNoVulkan(mode) ==
    CASE mode = "Text" -> <<"Text">>
      [] mode = "Graphics16" -> <<"Graphics16">>
      [] OTHER -> <<>>
ModeWords(mode) ==
    CASE mode = "Text" -> <<"Text">>
      [] mode = "Graphics16" -> <<"Graphics16">>
      [] mode = "Vulkan" -> <<"Vulkan", "(not", "supported", "on", "DOS)">>
      [] OTHER -> <<>>

InitializeHead ==
    <<"DOS", "Graphics", "Backend", "Initialized", "with", "mode:">>
InitializeOutput(mode) == InitializeHead \o ModeWords(mode)

(* switch (alignment) in drawText; no default.                             *)
AlignmentWords(alignment) ==
    CASE alignment = "Left" -> <<"Left">>
      [] alignment = "Center" -> <<"Center">>
      [] alignment = "Right" -> <<"Right">>
      [] alignment = "Justified" -> <<"Justified">>
      [] OTHER -> <<>>

DrawTextOutput(text, bounds, color, alignment) ==
    <<"Drawing", "text", text, "at", "bounds", bounds.x, bounds.y,
      "with", "size", bounds.width, bounds.height,
      "and", "color", color.r, color.g, color.b, "aligned">>
        \o AlignmentWords(alignment)

BackendCalled(op, arg, out) ==
    LET c == [op |-> op, arg |-> arg, out |-> out] IN
    backendLog' = IF backendLog = <<>> THEN <<c>>
                  ELSE <<backendLog[Len(backendLog)], c>>

BackendInitialize(mode) ==
    /\ BackendCalled("initialize", mode, InitializeOutput(mode))
    /\ UNCHANGED <<evVars, viewVars, itemState>>

BackendDrawText(text, bounds, color, alignment) ==
    /\ BackendCalled("drawText", alignment,
                     DrawTextOutput(text, bounds, color, alignment))
    /\ UNCHANGED <<evVars, viewVars, itemState>>

NextBackend ==
    \/ \E m \in RenderMode : BackendInitialize(m)
    \/ \E t \in Texts, b \in Rects, c \in Colors, a \in TextAlignment :
          BackendDrawText(t, b, c, a)

SpecBackend == Init /\ [][NextBackend]_vars

(* ================ ZEventManager and ZGraphicsView together ============ *)
(* One program holds a manager and a view over the same items; its calls   *)
(* interleave freely.  MaxJoint caps the three containers here.            *)
queueEventJoint(e) ==
    /\ Len(eventQueue_) < MaxJoint
    /\ queueEvent(e)

registerListenerJoint(item, callback) ==
    /\ Len(listeners_) < MaxJoint
    /\ registerListener(item, callback)

addItemJoint(item) ==
    /\ Len(items_) < MaxJoint
    /\ addItem(item)

NextAll ==
    \/ \E e \in Events : queueEventJoint(e)
    \/ \E i \in Items : registerListenerJoint(i, "returns")
    \/ dispatchEvents
    \/ WhileStepQuiet
    \/ CallbackStepQuiet
    \/ RuleStep
    \/ \E i \in Items : SetStateCall(i, "Hovered")
    \/ Construct("Text")
    \/ \E i \in Items : addItemJoint(i)
    \/ \E i \in Items : removeItem(i)
    \/ render({})

SpecAll == Init /\ [][NextAll]_vars

(* ============================ properties ============================== *)

NumListeners == Len(listeners_)
LastCall == callLog[Len(callLog)]
LastViewCall == viewCalls[Len(viewCalls)]
IsClick(e) == e.variant = "mouse" /\ e.type = "MouseClick"
(* The range-for of the event in flight has run out: the step that ends    *)
(* the dispatch of `event`.                                                *)
EventEnds == pc = "for" /\ li > NumListeners
(* The dispatch of the event of the last callLog entry has just ended.     *)
EventEnded ==
    /\ pc = "while"
    /\ dispatchResult = "running"
    /\ callLog # <<>>
    /\ LastCall.listener = NumListeners

(* C11: once the view is constructed, initialize has been called exactly   *)
(* once, with the view's render mode, and no draw call has been made       *)
(* without it; before construction nothing has reached the backend.        *)
C11_InitializedOnceFirst ==
    /\ renderMode_ # "unset" => initCalls = <<renderMode_>>
    /\ renderMode_ = "unset" => (initCalls = <<>> /\ drawCalls = <<>>)
    /\ drawCalls # <<>> => (Len(initCalls) = 1 /\ initCalls[1] \in RenderMode)

C11_Witness ==
    /\ renderResult = "returned"
    /\ Len(drawCalls) = 2
    /\ Len(viewCalls) = 2
    /\ viewCalls[1].op = "removeItem"
    /\ initCalls = <<"Vulkan">>
    /\ renderMode_ = "Vulkan"

(* C12 as stated: every dispatchEvents call that has been entered ends,    *)
(* by a return or by a propagated failure, whatever the callbacks do.      *)
C12_AlwaysFinishes ==
    (pc # "idle") ~> (pc = "idle")

(* C12 amended: every dispatchEvents call ends when no registered          *)
(* callback calls queueEvent.                                              *)
C12_FinishesWithoutEnqueue ==
    (pc # "idle" /\ NoEnqueuer) ~> (pc = "idle")

C12_Witness ==
    /\ dispatchResult = "returned"
    /\ NumListeners = 2
    /\ NoEnqueuer
    /\ Len(passEvents) = 2
    /\ eventQueue_ = <<>>

(* The callLog entries whose callback enqueued an event, the number of     *)
(* events the pass started with, and the place in passEvents of the event  *)
(* that entry j enqueued.                                                  *)
EnqueueEntries ==
    {j \in 1..Len(callLog) : callLog[j].callback = "enqueues"}
InitialLen == Len(passEvents) - Cardinality(EnqueueEntries)
PassIndex(j) ==
    InitialLen + Cardinality({h \in EnqueueEntries : h <= j})
(* The place in passEvents of the event that callLog entry j is for.       *)
BlockOf(j) == ((j - 1) \div NumListeners) + 1

(* C13 as stated: once the pass has ended, every event a callback enqueued *)
(* during it has been delivered to every registered listener.              *)
C13_EnqueuedAlwaysDispatched ==
    dispatchResult \in {"returned", "failed"} =>
        \A j \in EnqueueEntries :
            Len(callLog) >= PassIndex(j) * NumListeners

(* C13 amended: an event enqueued by a callback joins the running pass     *)
(* behind every event already queued; it waits in the queue at that place  *)
(* until the pass pops it, its callbacks run after the enqueuing one in    *)
(* listener order, and while the pass runs on it is delivered to every     *)
(* listener.  Only a failure that aborts the pass leaves it queued.        *)
C13_EnqueuedJoinsPass ==
    \A j \in EnqueueEntries :
        LET p == PassIndex(j) IN
        /\ passEvents[p] = EnqueuedByCallback
        /\ p > BlockOf(j)
        /\ p > popped => eventQueue_[p - popped] = EnqueuedByCallback
        /\ \A h \in 1..Len(callLog) :
              BlockOf(h) = p =>
                  /\ h > j
                  /\ callLog[h].event = EnqueuedByCallback
                  /\ callLog[h].listener = ((h - 1) % NumListeners) + 1
        /\ (dispatchResult = "returned"
              \/ (dispatchResult = "running"
                    /\ (p < popped \/ (p = popped /\ pc = "while"))))
             => Len(callLog) >= p * NumListeners

C13_Witness ==
    /\ dispatchResult = "running"
    /\ pc = "while"
    /\ NumListeners = 2
    /\ InitialLen = 1
    /\ 1 \in EnqueueEntries
    /\ popped = 2
    /\ Len(callLog) = 4
    /\ callLog[3].event = EnqueuedByCallback

(* C14: an event is Queued until the pass pops it, Dispatched while its    *)
(* callbacks run, Discarded afterwards.  The queue holds exactly the       *)
(* events not yet popped, in order; the event in flight is the one popped  *)
(* last and is not in the queue; callbacks only ever ran for popped        *)
(* events, each in its own block; outside the loop body no event is held.  *)
C14_Lifecycle ==
    /\ popped \in 0..Len(passEvents)
    /\ eventQueue_ = SubSeq(passEvents, popped + 1, Len(passEvents))
    /\ pc \in {"for", "rule"} => (popped >= 1 /\ event = passEvents[popped])
    /\ pc \in {"idle", "while"} => event = NoEvent
    /\ \A j \in 1..Len(callLog) :
          /\ BlockOf(j) <= popped
          /\ callLog[j].event = passEvents[BlockOf(j)]
    /\ dispatchResult = "none" => (popped = 0 /\ callLog = <<>>)

C14_Witness ==
    /\ pc = "rule"
    /\ popped = 2
    /\ Len(passEvents) = 3
    /\ Len(eventQueue_) = 1
    /\ passEvents[1] # passEvents[2]
    /\ eventQueue_[1] = event

(* C15: every initialize call writes, after its fixed words, the name of   *)
(* the mode it was given, and every drawText call ends its output with the *)
(* name of the alignment it was given: no enumerated value writes nothing. *)
C15_EveryEnumeratorNamed ==
    \A k \in 1..Len(backendLog) :
        LET c == backendLog[k] IN
        /\ c.op = "initialize" =>
              /\ c.arg \in RenderMode
              /\ Len(c.out) > Len(InitializeHead)
              /\ c.out[Len(InitializeHead) + 1] = c.arg
        /\ c.op = "drawText" =>
              /\ c.arg \in TextAlignment
              /\ Len(c.out) >= 2
              /\ c.out[Len(c.out) - 1] = "aligned"
              /\ c.out[Len(c.out)] = c.arg

C15_Witness ==
    /\ Len(backendLog) = 2
    /\ backendLog[1].op = "initialize"
    /\ backendLog[1].arg = "Vulkan"
    /\ backendLog[2].op = "drawText"
    /\ backendLog[2].arg = "Justified"
    /\ backendLog[2].out[3] = "Left"

(* C16: every queued event has a type tag that fits its variant: the       *)
(* MouseClick tag on mouse-variant events only, and no other tag on them.  *)
C16_TagFitsVariant ==
    \A k \in 1..Len(eventQueue_) :
        (eventQueue_[k].type = "MouseClick") <=> (eventQueue_[k].variant = "mouse")

C19_NoRelease ==
    [][pc # "idle"
         => \A i \in Items :
               /\ itemState[i] = "Pressed" => itemState'[i] = "Pressed"
               /\ itemState'[i] = "Normal" => itemState[i] = "Normal"]_vars

C19_Witness ==
    /\ EventEnded
    /\ LastCall.event.variant = "mouse"
    /\ LastCall.event.type = "TouchStart"
    /\ \E k \in 1..Len(callLog) : IsClick(callLog[k].event)
    /\ itemState[LastCall.item] = "Pressed"

(* C20: a step changes an item's state only if it is the built-in rule of  *)
(* dispatchEvents, which writes Pressed or Normal, or an explicit setState *)
(* call; queueEvent, registerListener, addItem, removeItem and render      *)
(* leave every item's state as it was.                                     *)
C20_StateWriters ==
    [][itemState' # itemState =>
         \/ /\ pc = "rule"
            /\ \A i \in Items :
                  itemState'[i] # itemState[i]
                      => itemState'[i] \in {"Pressed", "Normal"}
         \/ /\ pc = "idle"
            /\ pc' = "idle"
            /\ UNCHANGED <<eventQueue_, listeners_, items_, renderMode_,
                           initCalls, drawCalls, renderResult, viewCalls>>]_vars

C20_Witness ==
    /\ viewCalls # <<>>
    /\ LastViewCall.op = "render"
    /\ renderResult = "returned"
    /\ Len(drawCalls) >= 1
    /\ itemState[drawCalls[1]] = "Pressed"
    /\ listeners_ # <<>>
    /\ eventQueue_ # <<>>

(* C21: the listener registry changes only by a registerListener call,     *)
(* which appends the registered pair at the end; every other step, the     *)
(* steps of queueEvent and dispatchEvents included, leaves it as it was.   *)
C21_RegistryOnlyAppends ==
    [][\/ listeners_' = listeners_
       \/ /\ pc = "idle"
          /\ pc' = "idle"
          /\ eventQueue_' = eventQueue_
          /\ Len(listeners_') = Len(listeners_) + 1
          /\ SubSeq(listeners_', 1, Len(listeners_)) = listeners_
          /\ Len(registered') = Len(registered) + 1
          /\ listeners_'[Len(listeners_')] = registered'[Len(registered')]]_vars

C21_Witness ==
    /\ Len(listeners_) = 2
    /\ listeners_[1] # listeners_[2]
    /\ listeners_ = registered
    /\ pc = "for"
    /\ li = 2
    /\ popped = 2

(* C22: a pass that returns has made, for n dispatched events and m        *)
(* registerListener calls, n*m callback invocations, and for every item    *)
(* n times as many invocations as there are registrations of that item.    *)
C22_InvocationsPerRegistration ==
    dispatchResult = "returned" =>
        /\ Len(callLog) = popped * Len(registered)
        /\ \A x \in Items :
              Cardinality({j \in 1..Len(callLog) : callLog[j].item = x})
                = popped
                    * Cardinality({k \in 1..Len(registered) :
                                      registered[k].item = x})

C22_Witness ==
    /\ dispatchResult = "returned"
    /\ popped = 2
    /\ Len(registered) = 2
    /\ registered[1].item = registered[2].item
    /\ Len(callLog) = 4

(* C23: with no listener registered, no step of dispatchEvents invokes a   *)
(* callback or changes an item's state, and the pass returns with every    *)
(* queued event removed and the queue empty.                               *)
C23_NoListenerNoEffect ==
    [][(pc # "idle" /\ listeners_ = <<>>) =>
         /\ itemState' = itemState
         /\ callLog' = <<>>
         /\ pc' = "idle" =>
               /\ dispatchResult' = "returned"
               /\ eventQueue_' = <<>>
               /\ popped' = Len(passEvents')]_vars

C23_Witness ==
    /\ dispatchResult = "returned"
    /\ listeners_ = <<>>
    /\ popped = 2
    /\ \E k \in 1..Len(passEvents) :
          /\ IsClick(passEvents[k])
          /\ itemState[TargetOf(passEvents[k])] # "Pressed"

(* C24: a step that changes the view's item sequence leaves the listener   *)
(* registry as it was, every registration stays in the registry, the rule  *)
(* step for a MouseClick mouse event sets the listener's item to Pressed   *)
(* whether or not the view holds the item, and no step of dispatchEvents   *)
(* changes the view's item sequence.                                       *)
C24_IndependentReferences ==
    [][/\ items_' # items_ => listeners_' = listeners_
       /\ listeners_' = registered'
       /\ (pc = "rule" /\ pc' = "for" /\ IsClick(event))
             => itemState'[listeners_[li].item] = "Pressed"
       /\ pc' # pc => items_' = items_]_vars

C24_Witness ==
    /\ viewCalls # <<>>
    /\ LastViewCall.op = "removeItem"
    /\ \E k \in 1..Len(LastViewCall.before) :
          LastViewCall.before[k] = LastViewCall.item
    /\ \A k \in 1..Len(items_) : items_[k] # LastViewCall.item
    /\ pc = "for"
    /\ li = 2
    /\ IsClick(event)
    /\ listeners_[1].item = LastViewCall.item
    /\ itemState[LastViewCall.item] = "Pressed"

(* C1: when dispatchEvents returns normally, the callbacks were invoked    *)
(* once per listener for each queued event, event by event in the order    *)
(* the events were queued: invocation j is for event (j-1) div n + 1 and   *)
(* listener (j-1) mod n + 1, and there are n invocations per event.        *)
C1_OncePerEventFifo ==
    dispatchResult = "returned" =>
        /\ Len(callLog) = Len(passEvents) * NumListeners
        /\ \A j \in 1..Len(callLog) :
              /\ callLog[j].event = passEvents[((j - 1) \div NumListeners) + 1]
              /\ callLog[j].listener = ((j - 1) % NumListeners) + 1

C1_Witness ==
    /\ dispatchResult = "returned"
    /\ NumListeners = 2
    /\ Len(passEvents) >= 2
    /\ passEvents[1] # passEvents[2]
    /\ Len(callLog) >= 4

(* C2: for every dispatched event the callbacks run in registration order: *)
(* the k-th invocation for an event is the listener registered k-th.       *)
C2_RegistrationOrder ==
    \A j \in 1..Len(callLog) :
        LET k == ((j - 1) % Len(registered)) + 1 IN
        /\ callLog[j].item = registered[k].item
        /\ callLog[j].callback = registered[k].callback

C2_Witness ==
    /\ Len(registered) = 2
    /\ registered[1] # registered[2]
    /\ Len(callLog) >= 2
    /\ callLog[1].event = callLog[2].event

C4_BaseEventKeepsState ==
    [][(pc \in {"for", "rule"} /\ event.variant = "base")
         => itemState' = itemState]_vars

C4_Witness ==
    /\ EventEnded
    /\ LastCall.event = ZEvent("MouseClick")
    /\ NumListeners = 2
    /\ \A i \in Items : itemState[i] # "Pressed"

(* C5: when dispatchEvents returns normally the queue is empty.            *)
C5_QueueEmptyAtReturn ==
    dispatchResult = "returned" => eventQueue_ = <<>>

C5_Witness ==
    /\ dispatchResult = "returned"
    /\ listeners_ = <<>>
    /\ Len(passEvents) = 2
    /\ eventQueue_ = <<>>

(* C6: a render that returns has made one draw call per entry of items_,   *)
(* in index order: the draw calls are the item sequence.                   *)
C6_DrawsAreItems ==
    renderResult = "returned" => drawCalls = items_

C6_Witness ==
    /\ renderResult = "returned"
    /\ Len(items_) = 3
    /\ items_[1] = items_[3]
    /\ items_[1] # items_[2]
    /\ drawCalls = items_

AddThenRemove ==
    /\ Len(viewCalls) = 2
    /\ viewCalls[1].op = "addItem"
    /\ viewCalls[2].op = "removeItem"
    /\ viewCalls[1].item = viewCalls[2].item
Occurs(x, s) == \E j \in 1..Len(s) : s[j] = x

(* C7 as stated: addItem(x) then removeItem(x) leaves items_ as it was     *)
(* before the addItem, whether or not x occurred in it.                    *)
C7_RoundTrip ==
    AddThenRemove => items_ = viewCalls[1].before

(* C7 amended: addItem(x) then removeItem(x) leaves items_ as it was       *)
(* before the addItem when x did not occur in it.                          *)
C7_RoundTripAbsent ==
    (AddThenRemove /\ ~Occurs(viewCalls[1].item, viewCalls[1].before))
        => items_ = viewCalls[1].before

C7_Witness ==
    /\ AddThenRemove
    /\ ~Occurs(viewCalls[1].item, viewCalls[1].before)
    /\ Len(viewCalls[1].before) = 2
    /\ items_ = viewCalls[1].before

(* C8: removeItem(x) leaves the entries that differ from x, in their       *)
(* order, and nothing else.                                                *)
C8_RemovesAllOccurrences ==
    (viewCalls # <<>> /\ LastViewCall.op = "removeItem") =>
        items_ = SelectSeq(LastViewCall.before,
                           LAMBDA y : y # LastViewCall.item)

C8_Witness ==
    /\ viewCalls # <<>>
    /\ LastViewCall.op = "removeItem"
    /\ Len(LastViewCall.before) = 3
    /\ LastViewCall.before[1] = LastViewCall.item
    /\ LastViewCall.before[3] = LastViewCall.item
    /\ Len(items_) = 1

(* C9: when a callback fails, dispatchEvents ends there: the failing       *)
(* invocation is the last one, the event in flight is gone, and the queue  *)
(* holds exactly the events queued behind it, in their order.              *)
C9_FailurePropagates ==
    dispatchResult = "failed" =>
        /\ pc = "idle"
        /\ event = NoEvent
        /\ callLog # <<>>
        /\ LastCall.callback = "throws"
        /\ \A j \in 1..(Len(callLog) - 1) : callLog[j].callback # "throws"
        /\ LET d == ((Len(callLog) - 1) \div NumListeners) + 1 IN
             /\ d <= Len(passEvents)
             /\ LastCall.event = passEvents[d]
             /\ eventQueue_ = SubSeq(passEvents, d + 1, Len(passEvents))

C9_Witness ==
    /\ dispatchResult = "failed"
    /\ NumListeners = 2
    /\ LastCall.listener = 1
    /\ Len(passEvents) = 2
    /\ Len(eventQueue_) = 1
    /\ LastCall.event = eventQueue_[1]

(* C10: when the draw call at index i fails, render ends there: the draw   *)
(* calls are those of the items up to index i, and items_ is unchanged.    *)
C10_RenderAborts ==
    renderResult = "failed" =>
        /\ failedAt \in 1..Len(items_)
        /\ items_[failedAt] \in LastViewCall.item
        /\ \A j \in 1..(failedAt - 1) : items_[j] \notin LastViewCall.item
        /\ drawCalls = SubSeq(items_, 1, failedAt)
        /\ items_ = LastViewCall.before

C10_Witness ==
    /\ renderResult = "failed"
    /\ failedAt = 2
    /\ Len(items_) = 3
    /\ Len(drawCalls) = 2

====
